---- MODULE Spec2Model ----
(***************************************************************************)
(* Model of src/services/sql.js: the statement cache (stmt), the query    *)
(* wrapper (wrap), the chunked executor (getManyRows / executeMany), the   *)
(* record helpers (insert / replace / upsert), the shutdown handlers and   *)
(* the transaction coordinator (startTransactionIfNecessary and            *)
(* transactional) driven by the two context-local flags isTransactional    *)
(* and isInTransaction.                                                    *)
(*                                                                         *)
(* pc is the position of the running call chain (sql.js is synchronous,    *)
(* so one chain runs at a time; Switch hands the connection to another):   *)
(* "app" is application code (top level when stack is empty, otherwise    *)
(* the body func of the innermost transactional() call), "done" is the    *)
(* point where an API call has just handed its outcome (ret / exc) back    *)
(* to application code, every other value is a line of sql.js.             *)
(* The storage engine and the notification channel are external: each of   *)
(* their calls nondeterministically succeeds or throws.                    *)
(***************************************************************************)
EXTENDS Integers, Sequences, FiniteSets, TLC

VARIABLES
    dbConnection,     \* TRUE once setDbConnection has been called (line 6)
    statementCache,   \* line 68: query text -> handle (the serial of the compile that made it)
    compileCalls,     \* engine side: query text -> number of dbConnection.prepare calls
    engineTx,         \* engine side: a physical transaction is open on the connection
    isTransactional,  \* cls flag 'isTransactional'
    isInTransaction,  \* cls flag 'isInTransaction'
    stack,            \* active transactional() calls, outermost first
    pc,               \* position of the call chain
    op,               \* the API call in progress (or just finished, at pc = "done")
    ret,              \* value handed back by the call that just finished
    exc,              \* error in flight / handed back by the call that just finished
    bodyResult,       \* what func() produced for the owning transactional() call
    trace,            \* engine verbs and notifications issued since the scope began
    writeCalled,      \* a call that reaches startTransactionIfNecessary() was made in the scope
    wrote,            \* a statement of such a call has run on the engine in the current scope
    engineCalls,      \* engine invocations made by the API call in progress
    faults,           \* engine / notification failures so far
    ops,              \* API data calls made so far
    calls,            \* owning transactional() calls made so far
    pendingBegin,     \* a BEGIN was issued and no COMMIT or ROLLBACK has been issued since
    logged,           \* log.error entries written by the API call in progress
    closeCalls,       \* dbConnection.close() invocations made by the shutdown handlers
    chain,            \* the call chain that is running
    parked            \* the cls flags of the call chains that are suspended

vars == <<dbConnection, statementCache, compileCalls, engineTx, isTransactional, isInTransaction,
          stack, pc, op, ret, exc, bodyResult, trace, writeCalled, wrote, engineCalls, faults,
          ops, calls,
         pendingBegin, logged, closeCalls, chain, parked>>

----------------------------------------------------------------------------
(* Bounds of the exploration *)

MaxOps == 3        \* API data calls per behaviour
MaxCalls == 2      \* owning transactional() calls per behaviour
MaxDepth == 2      \* nesting depth of transactional()
MaxFaults == 2     \* engine / notification failures per behaviour
MaxChains == 2     \* independent call chains sharing the connection
MaxEvents == 2     \* shutdown events that find the connection set

PARAM_LIMIT == 900

----------------------------------------------------------------------------
(* Values *)

Min(a, b) == IF a < b THEN a ELSE b

\* A query text.  marker: the text holds the chunk marker ???; marks: the number
\* of :paramN placeholders substituted for it.
Text(s) == [sql |-> s, marker |-> FALSE, marks |-> 0]
Template(s) == [sql |-> s, marker |-> TRUE, marks |-> 0]

BEGIN_SQL == Text("BEGIN")
COMMIT_SQL == Text("COMMIT")
ROLLBACK_SQL == Text("ROLLBACK")
SELECT_SQL == Text("SELECT")
UPDATE_SQL == Text("UPDATE")
SCRIPT_SQL == Text("SCRIPT")
\* The texts insert (31) and upsert (56-57) build for a record with columns.
INSERT_SQL == Text("INSERT INTO")
REPLACE_SQL == Text("INSERT OR REPLACE INTO")
UPSERT_SQL == Text("INSERT INTO ON CONFLICT DO UPDATE")
MANY_SQL == Template("MANY")

\* The call chains, and the flags of a cls context in which nothing was set yet:
\* cls.get answers undefined, which the tests of lines 229 and 241 read as false.
Chains == 1..MaxChains
NoFlags == [isTransactional |-> FALSE, isInTransaction |-> FALSE]

NoErr == [type |-> "none", at |-> "none"]
Err(t, a) == [type |-> t, at |-> a]

NoRet == [tag |-> "none", rows |-> << >>]
Undefined == [tag |-> "undefined", rows |-> << >>]
RunInfo == [tag |-> "runinfo", rows |-> << >>]
RowId == [tag |-> "lastInsertRowid", rows |-> << >>]
BodyValue == [tag |-> "bodyvalue", rows |-> << >>]
Rows(s) == [tag |-> "rows", rows |-> s]

NoOp == [kind |-> "none", query |-> Text("none"), n |-> 0, params |-> << >>,
         results |-> << >>, batches |-> << >>]
Op(k, q) == [kind |-> k, query |-> q, n |-> 0, params |-> << >>,
             results |-> << >>, batches |-> << >>]
ManyOp(k, q, n) == [kind |-> k, query |-> q, n |-> n, params |-> [i \in 1..n |-> i],
                    results |-> << >>, batches |-> << >>]

\* insert / replace / upsert of a record with n columns.
RecOp(k, q, n) == [kind |-> k, query |-> q, n |-> n, params |-> << >>,
                   results |-> << >>, batches |-> << >>]

NoResult == [ret |-> NoRet, exc |-> NoErr]

\* Lengths of the parameter lists given to getManyRows / executeMany: short ones
\* under Spec, lists around and beyond PARAM_LIMIT under SpecMany.
ShortLens == {0, 1}
LongLens == {0, 1, 2, PARAM_LIMIT - 1, PARAM_LIMIT, PARAM_LIMIT + 1, 1500,
             2 * PARAM_LIMIT, 2 * PARAM_LIMIT + 1}

\* The read-only calls.  getRowOrNull (94-98), getValue (100-108), getMap (141-152)
\* and getColumn (154-169) are getRows followed by a projection of its result that
\* touches neither the engine nor the flags: "getRows" stands for them too.
ReadKinds == {"getRow", "getRows"}

\* Numbers of columns of the records given to insert / replace / upsert.
RecSizes == {0, 1}

----------------------------------------------------------------------------
(* The statement cache and the engine *)

\* The connection serves statements until close() has been called on it.
EngineOpen == closeCalls = 0

\* Number of dbConnection.prepare calls the engine has seen for a text.
Compiles(sql) == IF sql \in DOMAIN compileCalls THEN compileCalls[sql] ELSE 0

\* stmt without the lookup of line 71: every call compiles the text again.
stmt_AlwaysPrepare(sql, pOk) ==
    IF ~dbConnection
    THEN [st |-> "TypeError", cache |-> statementCache, compiles |-> compileCalls,
          eng |-> 0, fault |-> 0]
    ELSE LET n == Compiles(sql) + 1
             counted == [t \in DOMAIN compileCalls \cup {sql} |->
                            IF t = sql THEN n ELSE compileCalls[t]]
         IN IF pOk /\ EngineOpen
            THEN [st |-> "ok",
                  cache |-> [t \in DOMAIN statementCache \cup {sql} |->
                                IF t = sql THEN n ELSE statementCache[t]],
                  compiles |-> counted, eng |-> 1, fault |-> 0]
            ELSE [st |-> "EngineError", cache |-> statementCache,
                  compiles |-> counted, eng |-> 1, fault |-> IF EngineOpen THEN 1 ELSE 0]

\* stmt(sql), lines 70-76.  pOk: the engine's answer, should prepare be called.
\* st is "ok", "TypeError" (dbConnection is undefined) or "EngineError" (prepare threw).
stmt(sql, pOk) ==
    IF sql \in DOMAIN statementCache
    THEN [st |-> "ok", cache |-> statementCache, compiles |-> compileCalls,
          eng |-> 0, fault |-> 0]
    ELSE IF ~dbConnection
    THEN [st |-> "TypeError", cache |-> statementCache, compiles |-> compileCalls,
          eng |-> 0, fault |-> 0]
    ELSE LET n == Compiles(sql) + 1
             counted == [t \in DOMAIN compileCalls \cup {sql} |->
                            IF t = sql THEN n ELSE compileCalls[t]]
         IN IF pOk /\ EngineOpen
            THEN [st |-> "ok",
                  cache |-> [t \in DOMAIN statementCache \cup {sql} |->
                                IF t = sql THEN n ELSE statementCache[t]],
                  compiles |-> counted, eng |-> 1, fault |-> 0]
            ELSE [st |-> "EngineError", cache |-> statementCache,
                  compiles |-> counted, eng |-> 1, fault |-> IF EngineOpen THEN 1 ELSE 0]

\* A closed connection refuses every statement.
\* The engine's transaction verbs: BEGIN is refused while a transaction is open,
\* COMMIT and ROLLBACK are refused while none is ("no transaction is active").
EngineAccepts(verb) ==
    /\ EngineOpen
    /\ IF verb = "BEGIN" THEN ~engineTx
       ELSE IF verb \in {"COMMIT", "ROLLBACK"} THEN engineTx
       ELSE TRUE

\* stmt(sql).run() and its siblings get() / all(): the handle is fetched, then the
\* engine executes it.  rOk: the engine's answer to the execution.
\* issued: the statement was given to the engine (to prepare, then to execute);
\* ok: the engine executed it.  The execution fails when the engine refuses the
\* verb, and may fail for reasons of the engine's own (rOk = FALSE).
RunStmt(sql, at, pOk, rOk) ==
    LET s == stmt(sql, pOk)
    IN IF s.st # "ok"
       THEN [err |-> Err(s.st, at), issued |-> (s.st = "EngineError"), ok |-> FALSE,
             cache |-> s.cache, compiles |-> s.compiles, eng |-> s.eng, fault |-> s.fault]
       ELSE LET ok == rOk /\ EngineAccepts(at)
            IN [err |-> IF ok THEN NoErr ELSE Err("EngineError", at),
                issued |-> TRUE, ok |-> ok, cache |-> s.cache,
                compiles |-> s.compiles, eng |-> s.eng + 1,
                fault |-> IF EngineAccepts(at) /\ ~rOk THEN 1 ELSE 0]

\* wrap(func, query), lines 194-225, around a statement execution: the connection
\* check first, then func; any error func throws is replaced by thisError.
wrap(sql, at, pOk, rOk) ==
    IF ~dbConnection
    THEN [err |-> Err("NotInitialized", at), issued |-> FALSE, ok |-> FALSE,
          cache |-> statementCache, compiles |-> compileCalls, eng |-> 0, fault |-> 0]
    ELSE LET r == RunStmt(sql, at, pOk, rOk)
         IN IF r.err = NoErr THEN r ELSE [r EXCEPT !.err = Err("Wrapped", at)]

\* executeScript's func, line 191: stmt.run is not a function, so func throws a
\* TypeError without touching the engine, and wrap replaces it by thisError.
wrapScript(at) ==
    IF ~dbConnection
    THEN [err |-> Err("NotInitialized", at), issued |-> FALSE, ok |-> FALSE,
          cache |-> statementCache, compiles |-> compileCalls, eng |-> 0, fault |-> 0]
    ELSE [err |-> Err("Wrapped", at), issued |-> FALSE, ok |-> FALSE,
          cache |-> statementCache, compiles |-> compileCalls, eng |-> 0, fault |-> 0]

\* wrap's catch block, line 219: log.error once for the error it replaces.  The
\* connection check of line 195 throws before the try and logs nothing.
Logs(r) == IF r.err.type = "Wrapped" THEN 1 ELSE 0

beginTransaction(pOk, rOk) == RunStmt(BEGIN_SQL, "BEGIN", pOk, rOk)
commit(pOk, rOk) == RunStmt(COMMIT_SQL, "COMMIT", pOk, rOk)
rollback(pOk, rOk) == RunStmt(ROLLBACK_SQL, "ROLLBACK", pOk, rOk)

\* An entry of trace: the verb, whether it succeeded, and the nesting depth of
\* transactional() calls at which it was issued.
Event(verb, ok) == [verb |-> verb, ok |-> ok, depth |-> Len(stack)]

\* The effect of an engine call r on the cache, the counters and the trace.
Engine(r, verb) ==
    /\ faults + r.fault <= MaxFaults
    /\ statementCache' = r.cache
    /\ compileCalls' = r.compiles
    /\ faults' = faults + r.fault
    /\ engineCalls' = engineCalls + r.eng
    /\ trace' = IF r.issued /\ verb # "STMT" THEN Append(trace, Event(verb, r.ok)) ELSE trace
    /\ engineTx' = IF r.ok /\ verb = "BEGIN" THEN TRUE
                   ELSE IF r.ok /\ verb \in {"COMMIT", "ROLLBACK"} THEN FALSE
                   ELSE engineTx
    /\ pendingBegin' = IF r.issued /\ verb = "BEGIN" THEN TRUE
                       ELSE IF r.issued /\ verb \in {"COMMIT", "ROLLBACK"} THEN FALSE
                       ELSE pendingBegin

----------------------------------------------------------------------------
(* Initial state: the module has just been loaded *)

Init ==
    /\ dbConnection = FALSE
    /\ statementCache = << >>
    /\ compileCalls = << >>
    /\ engineTx = FALSE
    /\ isTransactional = FALSE
    /\ isInTransaction = FALSE
    /\ stack = << >>
    /\ pc = "app"
    /\ op = NoOp
    /\ ret = NoRet
    /\ exc = NoErr
    /\ bodyResult = NoResult
    /\ trace = << >>
    /\ writeCalled = FALSE
    /\ wrote = FALSE
    /\ engineCalls = 0
    /\ faults = 0
    /\ ops = 0
    /\ calls = 0
    /\ pendingBegin = FALSE
    /\ logged = 0
    /\ closeCalls = 0
    /\ chain = 1
    /\ parked = [c \in Chains |-> NoFlags]

engineVars == <<statementCache, compileCalls, engineTx, trace, engineCalls, faults, pendingBegin>>
\* What the coordinator and the statement paths never touch.
auxVars == <<closeCalls, chain, parked>>
restVars == <<logged, auxVars>>
flagVars == <<isTransactional, isInTransaction>>
scopeVars == <<stack, bodyResult, calls, writeCalled>>

Frame(owner) == [owner |-> owner]
Top == stack[Len(stack)]
Pop == SubSeq(stack, 1, Len(stack) - 1)
TransactionalOp == Op("transactional", Text("none"))

\* setDbConnection(connection), lines 8-10, called once at startup.
setDbConnection ==
    /\ pc = "app"
    /\ stack = << >>
    /\ ~dbConnection
    /\ dbConnection' = TRUE
    /\ UNCHANGED <<engineVars, flagVars, scopeVars, pc, op, ret, exc, wrote, ops>>
    /\ UNCHANGED restVars

----------------------------------------------------------------------------
(* Application code calling the API *)

\* The calls that go through startTransactionIfNecessary(): execute, executeMany,
\* executeScript, and insert / replace / upsert once past their empty-record test.
IsWrite(o) ==
    \/ o.kind \in {"execute", "executeMany", "executeScript"}
    \/ o.kind \in {"insert", "replace", "upsert"} /\ o.n > 0

\* The application starts the API call o, whose first line is at position p.
Call(o, p) ==
    /\ pc = "app"
    /\ ops < MaxOps
    /\ ops' = ops + 1
    /\ op' = o
    /\ pc' = p
    /\ engineCalls' = 0
    /\ writeCalled' = (writeCalled \/ (IsWrite(o) /\ isTransactional))
    /\ UNCHANGED <<dbConnection, statementCache, compileCalls, engineTx, pendingBegin, trace, faults, flagVars,
                   stack, bodyResult, calls, ret, exc, wrote>>
    /\ logged' = 0
    /\ UNCHANGED auxVars

\* A read that calls startTransactionIfNecessary() first, as the writes do.
CallRead_ViaStartTransaction ==
    \E k \in ReadKinds : Call(Op(k, SELECT_SQL), "startTransactionIfNecessary")

\* getRow (90-92), getRows (137-139) and the projections built on getRows: each
\* goes straight to wrap.
CallRead == \E k \in ReadKinds : Call(Op(k, SELECT_SQL), "wrap")

\* getManyRows(query, params), line 113: straight to the loop.
CallGetManyRows == \E n \in ShortLens : Call(ManyOp("getManyRows", MANY_SQL, n), "getManyRows")

\* execute(query, params), line 171-172.
CallExecute == Call(Op("execute", UPDATE_SQL), "startTransactionIfNecessary")

\* executeMany(query, params), line 181-182.
CallExecuteMany ==
    \E n \in ShortLens :
        Call(ManyOp("executeMany", MANY_SQL, n), "startTransactionIfNecessary")

\* executeScript(query), line 188-189.
CallExecuteScript == Call(Op("executeScript", SCRIPT_SQL), "startTransactionIfNecessary")

\* Where a write continues after startTransactionIfNecessary() has returned.
OpBody(o) == IF o.kind = "executeMany" THEN "getManyRows" ELSE "wrap"

\* startTransactionIfNecessary() without the test of isTransactional in line 229:
\* a write begins a transaction wherever none is marked as begun.
startTransactionIfNecessary_NoScopeTest ==
    /\ pc = "startTransactionIfNecessary"
    /\ IF isInTransaction
       THEN /\ pc' = OpBody(op)
            /\ UNCHANGED isInTransaction
       ELSE /\ isInTransaction' = TRUE
            /\ pc' = "beginTransaction"
    /\ UNCHANGED <<dbConnection, engineVars, isTransactional, scopeVars, op, ret, exc,
                   wrote, ops>>
    /\ UNCHANGED restVars

\* startTransactionIfNecessary(), lines 228-233: the guard and the flag.
startTransactionIfNecessary ==
    /\ pc = "startTransactionIfNecessary"
    /\ IF ~isTransactional \/ isInTransaction
       THEN /\ pc' = OpBody(op)
            /\ UNCHANGED isInTransaction
       ELSE /\ isInTransaction' = TRUE
            /\ pc' = "beginTransaction"
    /\ UNCHANGED <<dbConnection, engineVars, isTransactional, scopeVars, op, ret, exc,
                   wrote, ops>>
    /\ UNCHANGED restVars

\* startTransactionIfNecessary(), line 235: beginTransaction(), not guarded by wrap.
\* An error leaves the write (execute, executeMany, executeScript) at once.
BeginTransaction ==
    /\ pc = "beginTransaction"
    /\ \E pOk, rOk \in BOOLEAN :
          LET r == beginTransaction(pOk, rOk)
          IN /\ Engine(r, "BEGIN")
             /\ exc' = r.err
             /\ pc' = IF r.err = NoErr THEN OpBody(op) ELSE "done"
    /\ UNCHANGED <<dbConnection, flagVars, scopeVars, op, ret, wrote, ops>>
    /\ UNCHANGED restVars

\* What the caller of wrap hands on: execute the run info (174); insert and replace
\* its lastInsertRowid (35); upsert nothing (65); the reads the rows.
WrapReturn(o) ==
    IF o.kind = "execute" THEN RunInfo
    ELSE IF o.kind \in {"insert", "replace"} THEN RowId
    ELSE IF o.kind = "upsert" THEN Undefined
    ELSE Rows(<< >>)

\* The wrap(...) call of getRow / getRows (91, 138), execute (174), executeScript (191).
Wrap ==
    /\ pc = "wrap"
    /\ \E pOk, rOk \in BOOLEAN :
          LET r == IF op.kind = "executeScript"
                   THEN wrapScript("STMT")
                   ELSE wrap(op.query, "STMT", pOk, rOk)
          IN /\ Engine(r, "STMT")
             /\ exc' = r.err
             /\ ret' = IF r.err # NoErr THEN NoRet ELSE WrapReturn(op)
             /\ wrote' = (wrote \/ (r.ok /\ IsWrite(op) /\ isTransactional))
             /\ logged' = logged + Logs(r)
    /\ pc' = "done"
    /\ UNCHANGED <<dbConnection, flagVars, scopeVars, op, ops>>
    /\ UNCHANGED auxVars

----------------------------------------------------------------------------
(* The chunked executor *)

\* query.replace(/\?\?\?/g, questionMarks), lines 127-129: the marker is replaced
\* by k placeholders; a text without the marker is left as it is.
Replace(query, k) ==
    IF query.marker THEN [sql |-> query.sql, marker |-> FALSE, marks |-> k] ELSE query

\* The rows the engine answers for a batch: one per bound parameter, in order.
EngineRows(curParams) == curParams

\* params.slice(0, Math.min(params.length, PARAM_LIMIT)), line 117.
CurParams(params) == SubSeq(params, 1, Min(Len(params), PARAM_LIMIT))
\* params.slice(curParams.length), line 118.
RestParams(params, curParams) == SubSeq(params, Len(curParams) + 1, Len(params))

\* What the finished loop hands to its caller: getManyRows returns results (134);
\* executeMany drops them and returns nothing (185-186).
ManyReturn(o) == IF o.kind = "getManyRows" THEN Rows(o.results) ELSE Undefined

\* getManyRows, lines 116-134: one turn of the while loop, or its exit.
GetManyRows ==
    /\ pc = "getManyRows"
    /\ IF Len(op.params) > 0
       THEN \E pOk, rOk \in BOOLEAN :
               LET curParams == CurParams(op.params)
                   curQuery == Replace(op.query, Len(curParams))
                   r == wrap(curQuery, "STMT", pOk, rOk)
               IN /\ Engine(r, "STMT")
                  /\ op' = [op EXCEPT !.params = RestParams(op.params, curParams),
                                      !.results = IF r.ok THEN @ \o EngineRows(curParams) ELSE @,
                                      !.batches = IF r.issued THEN Append(@, curParams) ELSE @]
                  /\ exc' = r.err
                  /\ pc' = IF r.err = NoErr THEN "getManyRows" ELSE "done"
                  /\ wrote' = (wrote \/ (r.ok /\ IsWrite(op) /\ isTransactional))
                  /\ logged' = logged + Logs(r)
                  /\ UNCHANGED ret
       ELSE /\ ret' = ManyReturn(op)
            /\ pc' = "done"
            /\ UNCHANGED <<engineVars, op, exc, wrote, logged>>
    /\ UNCHANGED <<dbConnection, flagVars, scopeVars, ops>>
    /\ UNCHANGED auxVars

----------------------------------------------------------------------------
(* The record helpers, the unguarded write and the shutdown handlers *)

\* insert(tableName, rec), line 22.
CallInsert == \E n \in RecSizes : Call(RecOp("insert", INSERT_SQL, n), "insert")

\* replace(tableName, rec), lines 39-41: insert with replace = true.
CallReplace == \E n \in RecSizes : Call(RecOp("replace", REPLACE_SQL, n), "insert")

\* upsert(tableName, primaryKey, rec), line 43.
CallUpsert == \E n \in RecSizes : Call(RecOp("upsert", UPSERT_SQL, n), "insert")

\* insert / upsert without the test of lines 24-27 / 45-48: the empty record goes
\* to execute like any other.
Insert_NoEmptyCheck ==
    /\ pc = "insert"
    /\ pc' = "startTransactionIfNecessary"
    /\ UNCHANGED <<dbConnection, engineVars, flagVars, scopeVars, op, ret, exc, wrote, ops,
                   restVars>>

\* insert, lines 23-33, and upsert, lines 44-65: an empty record is logged and the
\* call returns nothing; any other record goes to execute.
Insert ==
    /\ pc = "insert"
    /\ IF op.n = 0
       THEN /\ logged' = logged + 1
            /\ ret' = Undefined
            /\ pc' = "done"
       ELSE /\ pc' = "startTransactionIfNecessary"
            /\ UNCHANGED <<logged, ret>>
    /\ UNCHANGED <<dbConnection, engineVars, flagVars, scopeVars, op, exc, wrote, ops,
                   auxVars>>

\* executeWithoutTransaction(query, params), line 177.
CallExecuteWithoutTransaction ==
    Call(Op("executeWithoutTransaction", UPDATE_SQL), "run")

\* dbConnection.run(query, params), line 178: given to the connection itself, past
\* the statement cache and past wrap.
run(rOk) ==
    IF ~dbConnection
    THEN [err |-> Err("TypeError", "STMT"), issued |-> FALSE, ok |-> FALSE,
          cache |-> statementCache, compiles |-> compileCalls, eng |-> 0, fault |-> 0]
    ELSE LET ok == rOk /\ EngineOpen
         IN [err |-> IF ok THEN NoErr ELSE Err("EngineError", "STMT"),
             issued |-> TRUE, ok |-> ok, cache |-> statementCache,
             compiles |-> compileCalls, eng |-> 1,
             fault |-> IF EngineOpen /\ ~rOk THEN 1 ELSE 0]

\* executeWithoutTransaction, line 178: no startTransactionIfNecessary(), no wrap,
\* nothing returned.
ExecuteWithoutTransaction ==
    /\ pc = "run"
    /\ \E rOk \in BOOLEAN :
          LET r == run(rOk)
          IN /\ Engine(r, "STMT")
             /\ exc' = r.err
             /\ ret' = IF r.err = NoErr THEN Undefined ELSE NoRet
    /\ pc' = "done"
    /\ UNCHANGED <<dbConnection, flagVars, scopeVars, op, wrote, ops, restVars>>

\* The process events of line 12.
ShutdownEvents == {"exit", "SIGINT", "SIGUSR1", "SIGUSR2", "SIGTERM"}

\* The handler of lines 13-19, run for one event.  Handlers run between the
\* synchronous runs of the call chain; after "exit" the process is gone.
Shutdown ==
    /\ pc = "app"
    /\ stack = << >>
    /\ closeCalls < MaxEvents
    /\ \E eventType \in ShutdownEvents :
          /\ closeCalls' = IF dbConnection THEN closeCalls + 1 ELSE closeCalls
          /\ pc' = IF eventType = "exit" THEN "exited" ELSE pc
    /\ UNCHANGED <<dbConnection, engineVars, flagVars, scopeVars, op, ret, exc, wrote, ops,
                   logged, chain, parked>>

----------------------------------------------------------------------------
(* The transaction coordinator *)

\* transactional(func), lines 240-247: entry.  A call made while isTransactional is
\* set runs func inline (241); otherwise the call owns the scope (244).
CallTransactional ==
    /\ pc = "app"
    /\ Len(stack) < MaxDepth
    /\ IF isTransactional
       THEN /\ stack' = Append(stack, Frame(FALSE))
            /\ UNCHANGED <<isTransactional, calls, bodyResult, trace, writeCalled, wrote>>
       ELSE /\ calls < MaxCalls
            /\ calls' = calls + 1
            /\ isTransactional' = TRUE
            /\ stack' = Append(stack, Frame(TRUE))
            /\ bodyResult' = NoResult
            /\ trace' = << >>
            /\ writeCalled' = FALSE
            /\ wrote' = FALSE
    /\ UNCHANGED <<dbConnection, statementCache, compileCalls, engineTx, pendingBegin, engineCalls, faults,
                   isInTransaction, pc, op, ret, exc, ops>>
    /\ UNCHANGED <<logged, auxVars>>

\* A nested call that, when func() throws, clears isInTransaction on its way out, as
\* the finally block of the owning call does.
Unwind_NestedResets(e) ==
    /\ stack # << >>
    /\ IF Top.owner
       THEN /\ pc' = "catch"
            /\ bodyResult' = [ret |-> NoRet, exc |-> e]
            /\ op' = NoOp
            /\ UNCHANGED stack
       ELSE /\ pc' = "done"
            /\ stack' = Pop
            /\ op' = TransactionalOp
            /\ UNCHANGED bodyResult
    /\ exc' = e
    /\ isInTransaction' = (Top.owner /\ isInTransaction)
    /\ ret' = NoRet
    /\ engineCalls' = 0
    /\ UNCHANGED <<dbConnection, statementCache, compileCalls, engineTx, pendingBegin, trace, faults, isTransactional,
                   calls, writeCalled, wrote, ops>>
    /\ logged' = 0
    /\ UNCHANGED auxVars

\* The error e leaves func() of the innermost transactional() call: the owning call
\* catches it (258); a nested call (241) lets it through to the enclosing body.
Unwind(e) ==
    /\ stack # << >>
    /\ IF Top.owner
       THEN /\ pc' = "catch"
            /\ bodyResult' = [ret |-> NoRet, exc |-> e]
            /\ op' = NoOp
            /\ UNCHANGED stack
       ELSE /\ pc' = "done"
            /\ stack' = Pop
            /\ op' = TransactionalOp
            /\ UNCHANGED bodyResult
    /\ exc' = e
    /\ ret' = NoRet
    /\ engineCalls' = 0
    /\ UNCHANGED <<dbConnection, statementCache, compileCalls, engineTx, pendingBegin, trace, faults, flagVars,
                   calls, writeCalled, wrote, ops>>
    /\ logged' = 0
    /\ UNCHANGED auxVars

\* func() returns: to line 249 in the owning call, to the enclosing body from a
\* nested call (241).
BodyReturn ==
    /\ pc = "app"
    /\ stack # << >>
    /\ IF Top.owner
       THEN /\ pc' = "commit"
            /\ bodyResult' = [ret |-> BodyValue, exc |-> NoErr]
            /\ op' = NoOp
            /\ UNCHANGED stack
       ELSE /\ pc' = "done"
            /\ stack' = Pop
            /\ op' = TransactionalOp
            /\ UNCHANGED bodyResult
    /\ ret' = BodyValue
    /\ UNCHANGED <<dbConnection, engineVars, flagVars, calls, exc, writeCalled, wrote, ops>>
    /\ UNCHANGED restVars

\* func() raises an error of its own.
BodyThrow ==
    /\ pc = "app"
    /\ Unwind(Err("AppError", "app"))

\* The body does not catch the error the call it made handed back.
Propagate ==
    /\ pc = "done"
    /\ exc # NoErr
    /\ Unwind(exc)

\* Application code goes on after a call: with its result, or having caught its error.
Continue ==
    /\ pc = "done"
    /\ pc' = "app"
    /\ op' = NoOp
    /\ ret' = NoRet
    /\ exc' = NoErr
    /\ engineCalls' = 0
    /\ IF stack = << >>
       THEN /\ bodyResult' = NoResult
            /\ trace' = << >>
            /\ writeCalled' = FALSE
            /\ wrote' = FALSE
       ELSE UNCHANGED <<bodyResult, trace, writeCalled, wrote>>
    /\ UNCHANGED <<dbConnection, statementCache, compileCalls, engineTx, pendingBegin, faults, flagVars, stack,
                   calls, ops>>
    /\ logged' = 0
    /\ UNCHANGED auxVars

\* Lines 249-254 with the notification moved out of the if: it is dispatched whether
\* or not a transaction was begun and committed.
Commit_NotifyOutsideIf ==
    /\ pc = "commit"
    /\ IF isInTransaction
       THEN \E pOk, rOk \in BOOLEAN :
               LET r == commit(pOk, rOk)
               IN /\ Engine(r, "COMMIT")
                  /\ exc' = r.err
                  /\ ret' = IF r.err = NoErr THEN ret ELSE NoRet
                  /\ pc' = IF r.err = NoErr THEN "notify" ELSE "catch"
       ELSE /\ pc' = "notify"
            /\ UNCHANGED <<engineVars, exc, ret>>
    /\ UNCHANGED <<dbConnection, flagVars, scopeVars, op, wrote, ops>>
    /\ UNCHANGED restVars

\* Lines 249-250 without the test of isInTransaction: commit() on every normal exit.
Commit_Unconditional ==
    /\ pc = "commit"
    /\ \E pOk, rOk \in BOOLEAN :
          LET r == commit(pOk, rOk)
          IN /\ Engine(r, "COMMIT")
             /\ exc' = r.err
             /\ ret' = IF r.err = NoErr THEN ret ELSE NoRet
             /\ pc' = IF r.err = NoErr THEN "notify" ELSE "catch"
    /\ UNCHANGED <<dbConnection, flagVars, scopeVars, op, wrote, ops>>
    /\ UNCHANGED restVars

\* transactional, lines 249-250: commit() if a transaction was begun.
Commit ==
    /\ pc = "commit"
    /\ IF isInTransaction
       THEN \E pOk, rOk \in BOOLEAN :
               LET r == commit(pOk, rOk)
               IN /\ Engine(r, "COMMIT")
                  /\ exc' = r.err
                  /\ ret' = IF r.err = NoErr THEN ret ELSE NoRet
                  /\ pc' = IF r.err = NoErr THEN "notify" ELSE "catch"
       ELSE /\ pc' = "finally"
            /\ UNCHANGED <<engineVars, exc, ret>>
    /\ UNCHANGED <<dbConnection, flagVars, scopeVars, op, wrote, ops>>
    /\ UNCHANGED restVars

\* transactional, line 253: require('./ws.js').sendPingToAllClients(), inside the try.
Notify ==
    /\ pc = "notify"
    /\ \E ok \in BOOLEAN :
          /\ faults + (IF ok THEN 0 ELSE 1) <= MaxFaults
          /\ faults' = faults + (IF ok THEN 0 ELSE 1)
          /\ trace' = Append(trace, Event("NOTIFY", ok))
          /\ exc' = IF ok THEN NoErr ELSE Err("NotifyError", "NOTIFY")
          /\ ret' = IF ok THEN ret ELSE NoRet
          /\ pc' = IF ok THEN "finally" ELSE "catch"
    /\ UNCHANGED <<dbConnection, statementCache, compileCalls, engineTx, pendingBegin, engineCalls,
                   flagVars, scopeVars, op, wrote, ops>>
    /\ UNCHANGED restVars

\* The catch block without lines 259-261: the error is re-raised with no rollback().
Catch_NoRollback ==
    /\ pc = "catch"
    /\ pc' = "finally"
    /\ UNCHANGED <<dbConnection, engineVars, flagVars, scopeVars, op, ret, exc, wrote, ops>>
    /\ UNCHANGED restVars

\* transactional, lines 258-264: rollback() if a transaction was begun, then throw e.
\* An error of rollback() itself leaves the catch block in place of e.
Catch ==
    /\ pc = "catch"
    /\ IF isInTransaction
       THEN \E pOk, rOk \in BOOLEAN :
               LET r == rollback(pOk, rOk)
               IN /\ Engine(r, "ROLLBACK")
                  /\ exc' = IF r.err = NoErr THEN exc ELSE r.err
       ELSE UNCHANGED <<engineVars, exc>>
    /\ pc' = "finally"
    /\ UNCHANGED <<dbConnection, flagVars, scopeVars, op, ret, wrote, ops>>
    /\ UNCHANGED restVars

\* transactional, line 266: the first statement of the finally block.
Finally ==
    /\ pc = "finally"
    /\ isTransactional' = FALSE
    /\ pc' = "finally2"
    /\ UNCHANGED <<dbConnection, engineVars, isInTransaction, scopeVars, op, ret, exc,
                   wrote, ops>>
    /\ UNCHANGED restVars

\* The finally block without lines 268-271: isInTransaction is left as it is.
FinallyReset_KeepsInTransaction ==
    /\ pc = "finally2"
    /\ stack' = Pop
    /\ op' = TransactionalOp
    /\ pc' = "done"
    /\ UNCHANGED <<dbConnection, engineVars, flagVars, bodyResult, calls,
                   writeCalled, ret, exc, wrote, ops>>
    /\ UNCHANGED restVars

\* transactional, lines 268-272: the rest of the finally block; the call then
\* returns ret (256) or re-raises (263) to its caller.
FinallyReset ==
    /\ pc = "finally2"
    /\ isInTransaction' = FALSE
    /\ stack' = Pop
    /\ op' = TransactionalOp
    /\ pc' = "done"
    /\ UNCHANGED <<dbConnection, engineVars, isTransactional, bodyResult, calls,
                   writeCalled, ret, exc, wrote, ops>>
    /\ UNCHANGED restVars

----------------------------------------------------------------------------

Next ==
    \/ setDbConnection
    \/ CallRead
    \/ CallGetManyRows
    \/ CallExecute
    \/ CallExecuteMany
    \/ CallExecuteScript
    \/ startTransactionIfNecessary
    \/ BeginTransaction
    \/ Wrap
    \/ GetManyRows
    \/ CallTransactional
    \/ BodyReturn
    \/ BodyThrow
    \/ Propagate
    \/ Continue
    \/ Commit
    \/ Notify
    \/ Catch
    \/ Finally
    \/ FinallyReset

Spec == Init /\ [][Next]_vars

TypeOK ==
    /\ dbConnection \in BOOLEAN
    /\ isTransactional \in BOOLEAN
    /\ isInTransaction \in BOOLEAN
    /\ wrote \in BOOLEAN
    /\ Len(stack) <= MaxDepth
    /\ faults \in 0..MaxFaults
    /\ ops \in 0..MaxOps
    /\ calls \in 0..MaxCalls
    /\ (pc = "app" => exc = NoErr /\ op = NoOp)

----------------------------------------------------------------------------
(* The chunked executor on long parameter lists.  A behaviour of SpecMany is one  *)
(* getManyRows / executeMany call, made with the connection set, from each of the  *)
(* three situations a call chain can be in: outside any scope (Idle), in a scope   *)
(* before its first write (MaybeTransactional), in a scope after a write           *)
(* (InTransaction).                                                                *)

Cached(texts) == [t \in texts |-> 1]

InitMany ==
    /\ dbConnection = TRUE
    /\ pc = "app"
    /\ op = NoOp
    /\ ret = NoRet
    /\ exc = NoErr
    /\ bodyResult = NoResult
    /\ engineCalls = 0
    /\ faults = 0
    /\ logged = 0
    /\ closeCalls = 0
    /\ chain = 1
    /\ parked = [c \in Chains |-> NoFlags]
    /\ \E scope \in {"Idle", "MaybeTransactional", "InTransaction"} :
          /\ isTransactional = (scope # "Idle")
          /\ isInTransaction = (scope = "InTransaction")
          /\ stack = IF scope = "Idle" THEN << >> ELSE <<Frame(TRUE)>>
          /\ calls = IF scope = "Idle" THEN 0 ELSE 1
          /\ ops = IF scope = "InTransaction" THEN 1 ELSE 0
          /\ writeCalled = (scope = "InTransaction")
          /\ wrote = (scope = "InTransaction")
          /\ trace = IF scope = "InTransaction"
                     THEN <<[verb |-> "BEGIN", ok |-> TRUE, depth |-> 1]>> ELSE << >>
          /\ statementCache = IF scope = "InTransaction"
                              THEN Cached({BEGIN_SQL, UPDATE_SQL}) ELSE << >>
          /\ compileCalls = statementCache
          /\ engineTx = (scope = "InTransaction")
          /\ pendingBegin = (scope = "InTransaction")

CallGetManyRowsLong ==
    \E n \in LongLens : Call(ManyOp("getManyRows", MANY_SQL, n), "getManyRows")

CallExecuteManyLong ==
    \E n \in LongLens :
        Call(ManyOp("executeMany", MANY_SQL, n), "startTransactionIfNecessary")

NextMany ==
    \/ CallGetManyRowsLong
    \/ CallExecuteManyLong
    \/ startTransactionIfNecessary
    \/ BeginTransaction
    \/ GetManyRows

SpecMany == InitMany /\ [][NextMany]_vars

----------------------------------------------------------------------------
(* The write calls, the record helpers and the shutdown handlers.  A behaviour of  *)
(* SpecHelpers starts with the connection set, in one of the three situations of   *)
(* InitMany, and makes write calls there; between the synchronous runs of the      *)
(* call chain the process may receive shutdown events.                             *)

NextHelpers ==
    \/ CallExecute
    \/ CallExecuteMany
    \/ CallExecuteScript
    \/ CallInsert
    \/ CallReplace
    \/ CallUpsert
    \/ CallExecuteWithoutTransaction
    \/ Insert
    \/ ExecuteWithoutTransaction
    \/ startTransactionIfNecessary
    \/ BeginTransaction
    \/ Wrap
    \/ GetManyRows
    \/ Continue
    \/ Shutdown

SpecHelpers == InitMany /\ [][NextHelpers]_vars

----------------------------------------------------------------------------
(* Several call chains on the one connection.  Each chain has a cls context of its *)
(* own, hence flags of its own; sql.js has no suspension point (transactional      *)
(* calls func and returns in one synchronous run), so a chain yields to another    *)
(* only between its top-level calls.                                               *)

\* The flags of the running chain, as its cls context holds them.
Flags == [isTransactional |-> isTransactional, isInTransaction |-> isInTransaction]

\* The running chain is suspended and chain c runs: cls.get and cls.set now act on
\* the context of c.
Switch ==
    /\ pc = "app"
    /\ stack = << >>
    /\ \E c \in Chains \ {chain} :
          /\ parked' = [parked EXCEPT ![chain] = Flags]
          /\ isTransactional' = parked[c].isTransactional
          /\ isInTransaction' = parked[c].isInTransaction
          /\ chain' = c
    /\ UNCHANGED <<dbConnection, engineVars, scopeVars, pc, op, ret, exc, wrote, ops,
                   logged, closeCalls>>

NextChains ==
    \/ setDbConnection
    \/ CallRead
    \/ CallExecute
    \/ startTransactionIfNecessary
    \/ BeginTransaction
    \/ Wrap
    \/ CallTransactional
    \/ BodyReturn
    \/ BodyThrow
    \/ Propagate
    \/ Continue
    \/ Commit
    \/ Notify
    \/ Catch
    \/ Finally
    \/ FinallyReset
    \/ Switch

SpecChains == Init /\ [][NextChains]_vars

----------------------------------------------------------------------------
(* Observations used by the properties *)

\* Number of times verb was issued since the scope began.
Count(verb) == Cardinality({i \in DOMAIN trace : trace[i].verb = verb})

Issued(verb) == \E i \in DOMAIN trace : trace[i].verb = verb
Succeeded(verb) == \E i \in DOMAIN trace : trace[i].verb = verb /\ trace[i].ok
Failed(verb) == \E i \in DOMAIN trace : trace[i].verb = verb /\ ~trace[i].ok

\* The owning transactional() call has just returned or re-raised to its caller.
OwnerDone == pc = "done" /\ op.kind = "transactional" /\ stack = << >>

\* The body of the owning call raised / returned.
BodyRaised == bodyResult.exc # NoErr
BodyReturned == bodyResult.ret = BodyValue

----------------------------------------------------------------------------
(* C1 *)

\* C1 (as claimed): a top-level transactional() call in which a write ran issues
\* exactly one BEGIN and exactly one terminating verb: one COMMIT or one ROLLBACK,
\* never both.
C1_OneBeginOneEnd ==
    (OwnerDone /\ wrote) =>
        /\ Count("BEGIN") = 1
        /\ Count("COMMIT") + Count("ROLLBACK") = 1

----------------------------------------------------------------------------
(* C2 *)

\* C2 (as claimed): when the body of the owning call raises after a write ran in the
\* scope, a ROLLBACK has been issued by the time the call exits and the caller
\* observes the very error the body raised.
C2_OriginalErrorAfterRollback ==
    (OwnerDone /\ wrote /\ BodyRaised) =>
        /\ Issued("ROLLBACK")
        /\ exc = bodyResult.exc

----------------------------------------------------------------------------
(* C3 *)

\* C3: whenever the call chain is outside every transactional() call (the owning
\* call has returned or re-raised, on any exit path), both flags are false; hence the
\* outermost active call is always an owning one, and a later top-level call in
\* which a write ran has issued its own BEGIN first and, when its body returned,
\* its own COMMIT.
C3_FlagsResetOnExit ==
    /\ (stack = << >> => ~isTransactional /\ ~isInTransaction)
    /\ (stack # << >> => stack[1].owner)
    /\ (OwnerDone /\ wrote) =>
          /\ trace[1].verb = "BEGIN"
          /\ (BodyReturned => Issued("COMMIT"))

\* A second top-level call, made after an engine failure earlier in the behaviour,
\* wrote and committed.
C3_Witness ==
    /\ OwnerDone
    /\ calls = 2
    /\ faults > 0
    /\ wrote
    /\ exc = NoErr
    /\ Succeeded("BEGIN")
    /\ Succeeded("COMMIT")

----------------------------------------------------------------------------
(* C4 *)

\* C4 (as claimed): when the notification dispatch raises after a successful COMMIT,
\* the owning call still returns the body's result, the caller observes no error and
\* no ROLLBACK is issued.
C4_NotificationBestEffort ==
    (OwnerDone /\ Succeeded("COMMIT") /\ Failed("NOTIFY")) =>
        /\ exc = NoErr
        /\ ret = BodyValue
        /\ ~Issued("ROLLBACK")

----------------------------------------------------------------------------
(* C5 *)

\* C5: at most one notification is dispatched per scope; it is dispatched by the
\* owning call itself (depth 1, never by a nested call) and right after a COMMIT
\* that succeeded, so never before COMMIT and never in a scope whose transaction was
\* not committed; and a top-level call whose COMMIT succeeded has dispatched exactly
\* one by the time it exits.
C5_OneNotificationAfterCommit ==
    /\ Count("NOTIFY") <= 1
    /\ \A i \in DOMAIN trace :
          trace[i].verb = "NOTIFY" =>
              /\ trace[i].depth = 1
              /\ i > 1
              /\ trace[i - 1].verb = "COMMIT"
              /\ trace[i - 1].ok
    /\ (OwnerDone /\ Succeeded("COMMIT")) => Count("NOTIFY") = 1
    /\ (OwnerDone /\ ~Succeeded("COMMIT")) => Count("NOTIFY") = 0

\* A top-level call with a nested call inside wrote, committed and notified once.
C5_Witness ==
    /\ OwnerDone
    /\ wrote
    /\ exc = NoErr
    /\ \E i \in DOMAIN trace : trace[i].verb = "BEGIN" /\ trace[i].ok /\ trace[i].depth = 2
    /\ Succeeded("COMMIT")
    /\ Succeeded("NOTIFY")

----------------------------------------------------------------------------
(* C6 *)

\* C6: the physical transaction is opened lazily.  A scope in which no write has been
\* called has issued nothing: no BEGIN, COMMIT, ROLLBACK or notification, whether
\* its body returns or raises.  Whatever a scope issues starts with the BEGIN of its
\* first write, and there is at most one BEGIN per scope.
C6_LazyBegin ==
    /\ ~writeCalled => trace = << >>
    /\ trace # << >> => trace[1].verb = "BEGIN"
    /\ Count("BEGIN") <= 1

\* A top-level call whose body raised without calling a write has exited.
C6_Witness ==
    /\ OwnerDone
    /\ ~writeCalled
    /\ BodyRaised
    /\ exc = bodyResult.exc
    /\ trace = << >>

----------------------------------------------------------------------------
(* C7 *)

ReadOp(o) == o.kind \in ReadKinds \cup {"getManyRows"}

\* C7: no step of a read-only operation (getRow; getRows, which getRowOrNull,
\* getValue, getMap and getColumn call; getManyRows) -- its call and every step of
\* its execution --
\* issues BEGIN or any other transaction verb or changes isTransactional or
\* isInTransaction, in any state.
C7_ReadsLeaveScopeAlone ==
    [][ReadOp(op') =>
          /\ isTransactional' = isTransactional
          /\ isInTransaction' = isInTransaction
          /\ trace' = trace]_vars

\* A read has run on the engine inside a scope that has not begun a transaction.
C7_Witness ==
    /\ pc = "done"
    /\ op.kind = "getRows"
    /\ exc = NoErr
    /\ engineCalls > 0
    /\ isTransactional
    /\ ~isInTransaction
    /\ ~engineTx
    /\ trace = << >>

----------------------------------------------------------------------------
(* C8 *)

\* ceil(n / d)
CeilDiv(n, d) == (n + d - 1) \div d

\* The parameter list of the call in progress, as it was given.
GivenParams(o) == [i \in 1..o.n |-> i]

RECURSIVE Concat(_)
Concat(seqs) == IF seqs = << >> THEN << >> ELSE Head(seqs) \o Concat(Tail(seqs))

\* The batches issued are the consecutive slices of at most PARAM_LIMIT parameters
\* of the given list, in order, ceil(n / PARAM_LIMIT) of them.
BatchesAreSlices(o) ==
    /\ Len(o.batches) = CeilDiv(o.n, PARAM_LIMIT)
    /\ \A b \in DOMAIN o.batches :
          /\ Len(o.batches[b]) <= PARAM_LIMIT
          /\ o.batches[b] = SubSeq(GivenParams(o), (b - 1) * PARAM_LIMIT + 1,
                                   Min(b * PARAM_LIMIT, o.n))
    /\ Concat(o.batches) = GivenParams(o)

\* The batch results concatenated in batch order.
BatchResults(o) == Concat([b \in DOMAIN o.batches |-> EngineRows(o.batches[b])])

\* C8 (as claimed): an executeMany call that completes has issued ceil(n / PARAM_LIMIT)
\* batches, each of at most PARAM_LIMIT parameters, the consecutive slices of the
\* list in order, and returns the batch results concatenated in batch order.
C8_ExecuteManyBatchesAndResult ==
    (pc = "done" /\ op.kind = "executeMany" /\ exc = NoErr) =>
        /\ BatchesAreSlices(op)
        /\ ret = Rows(BatchResults(op))

\* What the code does keep of C8: the batching itself, for executeMany and for
\* getManyRows, and the concatenated result as the return value of getManyRows;
\* and every turn of the loop shortens the remaining list, so the loop ends.
ChunkingHolds ==
    /\ (pc = "done" /\ op.kind \in {"executeMany", "getManyRows"} /\ exc = NoErr) =>
          /\ BatchesAreSlices(op)
          /\ op.results = BatchResults(op)
    /\ (pc = "done" /\ op.kind = "getManyRows" /\ exc = NoErr) =>
          ret = Rows(BatchResults(op))
    /\ (pc = "done" /\ op.kind = "executeMany" /\ exc = NoErr) => ret = Undefined
    /\ pc = "getManyRows" =>
          Len(op.params) = op.n - Min(Len(op.batches) * PARAM_LIMIT, op.n)

----------------------------------------------------------------------------
(* C9 *)

\* C9 (as claimed): executeMany given an empty parameter list makes no engine call
\* (no statement, no BEGIN), in any state, and returns an empty sequence.
C9_EmptyListNoEngineCall ==
    (pc = "done" /\ op.kind = "executeMany" /\ op.n = 0) =>
        /\ engineCalls = 0
        /\ ~Issued("BEGIN")
        /\ exc = NoErr
        /\ ret = Rows(<< >>)

----------------------------------------------------------------------------
(* C10 *)

\* C10 (as claimed): the engine's prepare has been invoked at most once per distinct
\* query text.
C10_PrepareAtMostOncePerText ==
    \A t \in DOMAIN compileCalls : compileCalls[t] <= 1

\* C10 (amended): once a text is in the cache, the engine's prepare is never invoked
\* for it again (the handle in the cache is the one the last prepare call for that
\* text returned), and its entry is never removed or replaced.  A prepare that
\* fails leaves no entry, so the next use of the text invokes prepare again.
C10_CachedTextNeverPreparedAgain ==
    [][\A t \in DOMAIN statementCache' :
          /\ statementCache'[t] = compileCalls'[t]
          /\ t \in DOMAIN statementCache =>
                /\ statementCache'[t] = statementCache[t]
                /\ compileCalls'[t] = compileCalls[t]
       /\ DOMAIN statementCache \subseteq DOMAIN statementCache']_vars

\* An execute found its text in the cache (its only engine call was the execution);
\* the cached handle was made by the second prepare call, the first having failed.
C10_Witness ==
    /\ pc = "done"
    /\ op.kind = "execute"
    /\ exc = NoErr
    /\ engineCalls = 1
    /\ UPDATE_SQL \in DOMAIN statementCache
    /\ statementCache[UPDATE_SQL] = 2
    /\ compileCalls[UPDATE_SQL] = 2

----------------------------------------------------------------------------
(* C11 *)

\* C11: insert, replace or upsert given a record without columns goes from its
\* first line straight back to its caller: the step changes neither flag, issues
\* no BEGIN and makes no engine call, raises nothing, returns no identifier (the
\* call returns undefined) and writes exactly one error log entry.  Entering the
\* call changed neither the flags nor the trace either.
C11_EmptyRecordIsLoggedNoOp ==
    [][/\ (pc = "insert" /\ op.n = 0) =>
             /\ pc' = "done"
             /\ UNCHANGED <<flagVars, trace, pendingBegin, engineTx, statementCache,
                            compileCalls, wrote>>
             /\ engineCalls' = 0
             /\ exc' = NoErr
             /\ ret' = Undefined
             /\ logged' = 1
       /\ pc' = "insert" =>
             /\ UNCHANGED <<flagVars, trace, pendingBegin, engineTx>>
             /\ logged' = 0]_vars

\* upsert of an empty record has just returned inside a scope that has not begun a
\* transaction: one log entry, no transaction begun.
C11_Witness ==
    /\ pc = "done"
    /\ op.kind = "upsert"
    /\ op.n = 0
    /\ isTransactional
    /\ ~isInTransaction
    /\ logged = 1
    /\ ret = Undefined
    /\ trace = << >>

----------------------------------------------------------------------------
(* C12 *)

\* C12 (as claimed): a query or write call made before the connection is set
\* (getRow, getRows, execute, executeMany, executeScript, executeWithoutTransaction,
\* inside or outside a scope) hands back the error 'DB connection not initialized
\* yet' and no other, and leaves isInTransaction false.
C12_NotInitializedBeforeConnection ==
    (/\ pc = "done"
     /\ ~dbConnection
     /\ op.kind \in ReadKinds \cup {"execute", "executeMany", "executeScript",
                                     "executeWithoutTransaction"}) =>
        /\ exc.type = "NotInitialized"
        /\ ~isInTransaction

----------------------------------------------------------------------------
(* C13 *)

\* C13 (as claimed): over any sequence of shutdown events delivered after the
\* connection was set, close() is invoked on the connection at most once in
\* total (and exactly once when the process has exited).
C13_CloseExactlyOnce ==
    /\ closeCalls <= 1
    /\ pc = "exited" => closeCalls = 1

----------------------------------------------------------------------------
(* C14 *)

\* C14 (as claimed): in every reachable state, the intermediate steps inside
\* transactional() and startTransactionIfNecessary() included, isInTransaction
\* implies isTransactional.
C14_InTransactionImpliesTransactional == isInTransaction => isTransactional

\* C14 (amended): isInTransaction implies isTransactional in every reachable state
\* but one: inside the finally block of the owning transactional() call, between
\* the clearing of isTransactional and the clearing of isInTransaction, where
\* isTransactional is already false and isInTransaction may still be true.  No
\* other code of the chain runs between the two.
C14_ImpliesOutsideFinally ==
    /\ pc # "finally2" => (isInTransaction => isTransactional)
    /\ pc = "finally2" => ~isTransactional

\* Inside startTransactionIfNecessary(), between the setting of isInTransaction and
\* the BEGIN: both flags are true.
C14_Witness ==
    /\ pc = "beginTransaction"
    /\ isInTransaction
    /\ isTransactional
    /\ trace = << >>

----------------------------------------------------------------------------
(* C15 *)

\* C15: with several call chains on the one connection, each with flags of its
\* own, interleaved at suspension points only: whenever a chain is about to issue
\* BEGIN, every BEGIN issued before, by any chain, has been followed by a COMMIT or
\* a ROLLBACK; no chain is suspended, and no chain starts to run, while a BEGIN is
\* pending; and the flags of every suspended chain are false.
C15_OneTransactionAtATime ==
    /\ pc = "beginTransaction" => ~pendingBegin
    /\ (pc = "app" /\ stack = << >>) => ~pendingBegin
    /\ pendingBegin => (isInTransaction /\ Issued("BEGIN"))
    /\ \A c \in Chains \ {chain} : parked[c] = NoFlags

\* The second chain has issued its BEGIN after the first chain, which ran before
\* it, had its own transaction committed.
C15_Witness ==
    /\ chain = 2
    /\ calls = 2
    /\ pc = "wrap"
    /\ pendingBegin
    /\ trace = <<[verb |-> "BEGIN", ok |-> TRUE, depth |-> 1]>>
    /\ COMMIT_SQL \in DOMAIN statementCache
    /\ faults = 0

----------------------------------------------------------------------------
(* C16 *)

\* C16 (as claimed): executeScript called as the first write of a scope, with the
\* connection set and the engine failing nothing, issues BEGIN, runs the script on
\* the engine and returns normally (so that the owning call can end with COMMIT,
\* not ROLLBACK).
C16_ExecuteScriptRuns ==
    (/\ pc = "done"
     /\ op.kind = "executeScript"
     /\ dbConnection
     /\ faults = 0
     /\ trace = <<Event("BEGIN", TRUE)>>) =>
        /\ exc = NoErr
        /\ wrote

----------------------------------------------------------------------------
(* C17 *)

\* C17 (as claimed): isInTransaction is true only while the engine has the
\* transaction open: a write whose BEGIN failed does not leave it true, a statement
\* is run under a true flag only inside an open transaction, and COMMIT or ROLLBACK
\* is issued only after a BEGIN that succeeded.
C17_FlagAgreesWithEngine ==
    /\ (pc = "done" /\ exc.at = "BEGIN") => ~isInTransaction
    /\ (pc \in {"wrap", "getManyRows"} /\ isInTransaction) => engineTx
    /\ (Issued("COMMIT") \/ Issued("ROLLBACK")) => Succeeded("BEGIN")

----------------------------------------------------------------------------
(* C18 *)

\* C18 (as claimed): a write (execute, executeMany, executeScript, insert, replace,
\* upsert, given something to write) made outside any transactional() call issues
\* no BEGIN, COMMIT or ROLLBACK and no notification, leaves both flags false, and
\* its statement is given to the engine.
C18_WriteOutsideScopeRunsOnEngine ==
    (/\ stack = << >>
     /\ pc = "done"
     /\ IsWrite(op)
     /\ op.kind = "executeMany" => op.n > 0) =>
        /\ trace = << >>
        /\ ~isTransactional
        /\ ~isInTransaction
        /\ engineCalls >= 1

\* What the code does keep of C18: outside every transactional() call no write
\* issues BEGIN, COMMIT, ROLLBACK or a notification and both flags stay false; and
\* a write other than executeScript that returns normally has run its statement
\* on the engine, in one engine call, or two when the text had to be prepared.
FrameOutsideScopeHolds ==
    stack = << >> =>
        /\ trace = << >>
        /\ ~pendingBegin
        /\ ~isTransactional
        /\ ~isInTransaction
        /\ (/\ pc = "done"
            /\ IsWrite(op)
            /\ op.kind = "executeMany" => op.n > 0
            /\ exc = NoErr) => engineCalls \in {1, 2}

----------------------------------------------------------------------------
(* C19 *)

\* C19: a nested transactional() call is neutral for the scope.  COMMIT, ROLLBACK
\* and the notification are issued by the owning call only; when a nested call
\* has just returned or raised, no COMMIT or ROLLBACK has been issued,
\* isTransactional is true and isInTransaction is true if the scope has issued its
\* BEGIN; and whenever the body of the owning call returns in a scope that issued
\* BEGIN, whatever nested calls raised inside it, the owning call issues COMMIT
\* right after that BEGIN, with no ROLLBACK in between: the one transaction that
\* holds every write of the scope, those of a failed inner call included, is the
\* one committed.
C19_NestedCallIsNeutral ==
    /\ \A i \in DOMAIN trace :
          trace[i].verb \in {"COMMIT", "ROLLBACK", "NOTIFY"} => trace[i].depth = 1
    /\ (pc = "done" /\ op = TransactionalOp /\ stack # << >>) =>
          /\ isTransactional
          /\ Issued("BEGIN") => isInTransaction
          /\ ~Issued("COMMIT")
          /\ ~Issued("ROLLBACK")
    /\ (OwnerDone /\ BodyReturned /\ Issued("BEGIN")) =>
          /\ Len(trace) >= 2
          /\ trace[1].verb = "BEGIN"
          /\ trace[2].verb = "COMMIT"
          /\ ~isTransactional
          /\ ~isInTransaction

\* The inner call wrote (its write issued the BEGIN of the scope) and has just
\* raised an error of its own to the enclosing body: nothing was rolled back, the
\* transaction is open and both flags are true.
C19_Witness ==
    /\ pc = "done"
    /\ op = TransactionalOp
    /\ stack = <<Frame(TRUE)>>
    /\ exc = Err("AppError", "app")
    /\ wrote
    /\ engineTx
    /\ isTransactional
    /\ isInTransaction
    /\ trace = <<[verb |-> "BEGIN", ok |-> TRUE, depth |-> 2]>>

----------------------------------------------------------------------------
(* C20 *)

\* C20 (as claimed): when the COMMIT issued on the normal exit of the owning call
\* has failed (the BEGIN of the scope having succeeded), then by the time the call
\* exits no notification was dispatched, a ROLLBACK was issued, both flags are
\* false, and the caller is handed the error of the COMMIT, not the return value of
\* the body.
C20_CommitErrorReachesCaller ==
    (OwnerDone /\ Succeeded("BEGIN") /\ Failed("COMMIT")) =>
        /\ ~Issued("NOTIFY")
        /\ Issued("ROLLBACK")
        /\ ~isTransactional
        /\ ~isInTransaction
        /\ ret = NoRet
        /\ exc.at = "COMMIT"

\* What the code does keep of C20: everything but the identity of the error.  The
\* caller is handed an error, of the COMMIT or of the ROLLBACK that followed it.
CommitFailureHolds ==
    (OwnerDone /\ Failed("COMMIT")) =>
        /\ ~Issued("NOTIFY")
        /\ Issued("ROLLBACK")
        /\ ~isTransactional
        /\ ~isInTransaction
        /\ ret = NoRet
        /\ exc.at \in {"COMMIT", "ROLLBACK"}
        /\ exc.at = "ROLLBACK" => Failed("ROLLBACK")

====
